---- MODULE Spec2Model ----
(***************************************************************************)
(* A model of the voice client in src/static/script.js: the record button, *)
(* the microphone and the WebSocket opened by startStreaming, the capture  *)
(* callback, the inbound message protocol, the AudioPlayer that reassembles *)
(* audio chunks, and the session controls.                                  *)
(*                                                                         *)
(* The page runs on one event loop: every handler, and every continuation  *)
(* of an await, runs to completion before the next one starts.  Each such  *)
(* run is one action.  What lies outside the page (the user, the browser's *)
(* permission prompt, the network, the server, the audio decoder) picks    *)
(* which handler runs next and with which input.                            *)
(*                                                                         *)
(* Not modelled: the settings dialog's visibility, CSS classes, scrolling  *)
(* and the drawing of the visualizer canvas.                                *)
(***************************************************************************)
EXTENDS Integers, Sequences, FiniteSets, TLC

\* ------------------------------------------------------------- bounds

\* startStreaming invocations that get as far as getUserMedia
MaxStarts == 2
\* audio frames recorded per WebSocket
MaxFrames == 1
\* entries of AudioPlayer.rawAudioChunks
MaxChunks == 2
\* decodeAudioData calls in flight
MaxDecodes == 1
\* entries of the chat history
MaxHistory == 2
\* bytes of a pcmData given to createWavBuffer by itself
MaxPcmBytes == 3
\* samples of an inputBuffer given to resampleBuffer by itself
MaxSamples == 3
\* calls of initializeSession, the one at page load included
MaxSessions == 2

Starts == 1..MaxStarts

\* ------------------------------------------------------------- state

VARIABLES
    apiKeys,              \* apiKeys.gemini / .assemblyai / .murf
    sessionId,            \* the n-th crypto.randomUUID()
    isRecording,
    audioContext,         \* audioPlayer.audioContext: "null", or its state
    rawAudioChunks,       \* audioPlayer.rawAudioChunks
    handed,               \* per entry of rawAudioChunks: a play() has read it
    pendingDecodes,       \* decodeAudioData promises not yet settled
    chatHistory,          \* the children of #chatHistory
    status,               \* #chatStatus: [message, isError]
    button,               \* the state last given to updateRecordButton
    chatVisualizerHidden,
    websocket,            \* the global: 0 (undefined) or the k-th WebSocket
    scriptNode,           \* the global: 0 (null) or the node made by socket k's onopen
    mediaStreamSource,    \* the global: 0 (null) or the source of stream k
    micState,             \* per start: the getUserMedia promise
    streamState,          \* per start: the MediaStream's tracks
    readyState,           \* per start: the WebSocket's readyState
    nodeState,            \* per start: the ScriptProcessor made by its onopen
    sent,                 \* per start: what websocket.send was given, in order
    settleScheduled,      \* setTimeout(..., 2000) calls of stopStreaming
    settleFired,          \* how many of them have run
    uttOpen,              \* an audio_stream_start was handled, and no audio_stream_end since
    uttChunks,            \* the payloads queued since then and not discarded by the user
    wellFormed,           \* so far the server sent its audio messages in protocol order
    lastEvent,            \* what the handler that ran last did
    call                  \* a call of a utility function by itself: its arguments, its result

vars == <<apiKeys, sessionId, isRecording, audioContext, rawAudioChunks, handed,
          pendingDecodes, chatHistory, status, button, chatVisualizerHidden,
          websocket, scriptNode, mediaStreamSource, micState, streamState,
          readyState, nodeState, sent, settleScheduled, settleFired,
          uttOpen, uttChunks, wellFormed, lastEvent, call>>

\* all but call
pageVars == <<apiKeys, sessionId, isRecording, audioContext, rawAudioChunks, handed,
              pendingDecodes, chatHistory, status, button, chatVisualizerHidden,
              websocket, scriptNode, mediaStreamSource, micState, streamState,
              readyState, nodeState, sent, settleScheduled, settleFired,
              uttOpen, uttChunks, wellFormed, lastEvent>>

playerVars == <<audioContext, rawAudioChunks, handed, pendingDecodes, uttOpen, uttChunks,
                wellFormed>>
socketVars == <<websocket, micState, readyState, sent>>

\* ------------------------------------------------------------- API keys

RequiredKeys == {"gemini", "assemblyai", "murf"}

\* apiKeys as declared: nothing stored yet
NullKeys == [k \in RequiredKeys |-> "null"]
AllKeys == [k \in RequiredKeys |-> "key"]
\* what the settings form can hold: every required key, or all but one (trimmed to "")
FormInputs == {AllKeys} \cup {[AllKeys EXCEPT ![k] = ""] : k \in RequiredKeys}

Falsy(v) == v \in {"null", ""}

KeysRequiredStatus ==
    [message |-> <<"API Keys required. Open settings to add them.">>, isError |-> TRUE]

checkRequiredKeysNoMurf(keys) == ~(Falsy(keys["gemini"]) \/ Falsy(keys["assemblyai"]))

\* the value checkRequiredKeys returns; when FALSE it has set KeysRequiredStatus
checkRequiredKeys(keys) ==
    ~(Falsy(keys["gemini"]) \/ Falsy(keys["assemblyai"]) \/ Falsy(keys["murf"]))

\* ------------------------------------------------------------- status, history

Status(text, isError) == [message |-> <<text>>, isError |-> isError]
ServerErrorStatus(msg) == [message |-> <<"Server Error: ", msg>>, isError |-> TRUE]
ReadyStatus == Status("Ready for command.", FALSE)

InitialMessage(text) == [class |-> "initial-message", text |-> text]

\* The handler that ran last: its kind, the socket it belongs to, and what it did:
\*   threw      it ended by an uncaught exception
\*   stopped    it ran the body of stopStreaming
\*   sentOn     the socket it gave a message to (0: none)
\*   arg        the text of a transcription or llm_response_text message (as <<text>>),
\*              the audio_data of an audio_chunk
\*   played     the bytes play() gave createWavBuffer (<<>>: no playback request)
\*   utterance  for audio_stream_end: the payloads received since audio_stream_start
\*   replayed   entries of that playback request an earlier request had read already
\*   discarded  entries it removed from rawAudioChunks that no play() had read
Ev(type, k) ==
    [type |-> type, sock |-> k, threw |-> FALSE, stopped |-> FALSE,
     sentOn |-> 0, arg |-> <<>>, played |-> <<>>, utterance |-> <<>>, replayed |-> 0,
     discarded |-> 0]

\* ------------------------------------------------------------- stopStreaming

\* the variables stopStreaming reads or writes, and the status beside them
Cur ==
    [isRecording |-> isRecording, button |-> button, status |-> status,
     settleScheduled |-> settleScheduled, scriptNode |-> scriptNode,
     nodeState |-> nodeState, mediaStreamSource |-> mediaStreamSource,
     streamState |-> streamState, chatVisualizerHidden |-> chatVisualizerHidden]

stopStreamingNoTimer(s) ==
    [s EXCEPT !.isRecording = FALSE,
              !.button = "processing",
              !.nodeState = IF s.scriptNode # 0
                            THEN [@ EXCEPT ![s.scriptNode] = "disconnected"] ELSE @,
              !.scriptNode = 0,
              !.streamState = IF s.mediaStreamSource # 0
                              THEN [@ EXCEPT ![s.mediaStreamSource] = "stopped"] ELSE @,
              !.mediaStreamSource = 0,
              !.chatVisualizerHidden = TRUE]

\* stopStreaming past its first line
stopStreamingBody(s) ==
    [s EXCEPT !.isRecording = FALSE,
              !.button = "processing",
              !.settleScheduled = @ + 1,
              !.nodeState = IF s.scriptNode # 0
                            THEN [@ EXCEPT ![s.scriptNode] = "disconnected"] ELSE @,
              !.scriptNode = 0,
              !.streamState = IF s.mediaStreamSource # 0
                              THEN [@ EXCEPT ![s.mediaStreamSource] = "stopped"] ELSE @,
              !.mediaStreamSource = 0,
              !.chatVisualizerHidden = TRUE]

stopStreamingUnguarded(s) == stopStreamingBody(s)

stopStreaming(s) == IF ~s.isRecording THEN s ELSE stopStreamingBody(s)

\* write a value of Cur's shape back to the variables
Commit(s) ==
    /\ isRecording' = s.isRecording
    /\ button' = s.button
    /\ status' = s.status
    /\ settleScheduled' = s.settleScheduled
    /\ scriptNode' = s.scriptNode
    /\ nodeState' = s.nodeState
    /\ mediaStreamSource' = s.mediaStreamSource
    /\ streamState' = s.streamState
    /\ chatVisualizerHidden' = s.chatVisualizerHidden

\* ------------------------------------------------------------- AudioPlayer

\* AudioPlayer.start's audioContext: a new one unless one is there and not closed
playerStartContext(ctx) == IF ctx \in {"null", "closed"} THEN "running" ELSE ctx

playerStopContextKeeps(ctx) == ctx

\* AudioPlayer.stop's audioContext: close() is called on a running one
playerStopContext(ctx) == IF ctx = "running" THEN "closed" ELSE ctx

\* how many entries of rawAudioChunks no play() has read
Unread(h) == Len(SelectSeq(h, LAMBDA b : ~b))

\* window.atob's alphabet
B64Alphabet ==
    <<"A", "B", "C", "D", "E", "F", "G", "H", "I", "J", "K", "L", "M", "N", "O", "P",
      "Q", "R", "S", "T", "U", "V", "W", "X", "Y", "Z", "a", "b", "c", "d", "e", "f",
      "g", "h", "i", "j", "k", "l", "m", "n", "o", "p", "q", "r", "s", "t", "u", "v",
      "w", "x", "y", "z", "0", "1", "2", "3", "4", "5", "6", "7", "8", "9", "+", "/">>

B64Value(c) == (CHOOSE i \in 1..64 : B64Alphabet[i] = c) - 1

\* base64ToArrayBuffer: atob drops the padding and reads four characters as three bytes
base64ToArrayBuffer(base64String) ==
    LET chars == SelectSeq(base64String, LAMBDA c : c # "=")
        v(i) == B64Value(chars[i])
        len == (Len(chars) * 6) \div 8
        byte(j) ==
            LET g == 4 * (j \div 3)
            IN  CASE j % 3 = 0 -> v(g + 1) * 4 + v(g + 2) \div 16
                  [] j % 3 = 1 -> (v(g + 2) % 16) * 16 + v(g + 3) \div 4
                  [] OTHER -> (v(g + 3) % 4) * 64 + v(g + 4)
    IN  [i \in 1..len |-> byte(i - 1)]

\* the audio_data of an audio_chunk: "AQ==" (one byte), "AgM=" (two bytes)
AudioData == {<<"A", "Q", "=", "=">>, <<"A", "g", "M", "=">>}
\* an audio_chunk without audio_data
NoAudioData == <<>>

RECURSIVE CombinedReversed(_)
CombinedReversed(chunks) ==
    IF chunks = <<>> THEN <<>> ELSE CombinedReversed(Tail(chunks)) \o Head(chunks)

\* AudioPlayer.play's combined: each chunk copied at the offset the ones before it end at
RECURSIVE Combined(_)
Combined(chunks) ==
    IF chunks = <<>> THEN <<>> ELSE Head(chunks) \o Combined(Tail(chunks))

\* ------------------------------------------------------------- Init

\* no utility function is being looked at by itself
NoCall == [fn |-> "none", args |-> <<>>, returned |-> FALSE, result |-> <<>>]

\* DOMContentLoaded: loadApiKeys, initializeSession, updateRecordButton('idle')
Loaded ==
    /\ apiKeys \in {NullKeys} \cup FormInputs
    /\ sessionId = 1
    /\ isRecording = FALSE
    /\ audioContext = "null"
    /\ rawAudioChunks = <<>>
    /\ handed = <<>>
    /\ pendingDecodes = 0
    /\ chatHistory = <<InitialMessage("Awaiting audio input...")>>
    /\ status = IF checkRequiredKeys(apiKeys)
                THEN Status("Session initialized. Ready for command.", FALSE)
                ELSE KeysRequiredStatus
    /\ button = "idle"
    /\ chatVisualizerHidden = TRUE
    /\ websocket = 0
    /\ scriptNode = 0
    /\ mediaStreamSource = 0
    /\ micState = [k \in Starts |-> "none"]
    /\ streamState = [k \in Starts |-> "none"]
    /\ readyState = [k \in Starts |-> "none"]
    /\ nodeState = [k \in Starts |-> "none"]
    /\ sent = [k \in Starts |-> <<>>]
    /\ settleScheduled = 0
    /\ settleFired = 0
    /\ uttOpen = FALSE
    /\ uttChunks = <<>>
    /\ wellFormed = TRUE
    /\ lastEvent = Ev("load", 0)

Init == Loaded /\ call = NoCall

\* ------------------------------------------------------------- settings

\* saveSettingsBtn click: saveApiKeys
SaveApiKeys ==
    /\ \E form \in FormInputs : apiKeys' = form
    /\ lastEvent' = Ev("save_keys", 0)
    /\ UNCHANGED <<sessionId, isRecording, chatHistory, status, button,
                   chatVisualizerHidden, scriptNode, mediaStreamSource, streamState,
                   nodeState, settleScheduled, settleFired>>
    /\ UNCHANGED playerVars
    /\ UNCHANGED socketVars
    /\ UNCHANGED call

\* ------------------------------------------------------------- record button

\* mainRecordBtn click while not recording, checkRequiredKeys false: startStreaming returns
ClickStartRefused ==
    /\ ~isRecording
    /\ ~checkRequiredKeys(apiKeys)
    /\ status' = KeysRequiredStatus
    /\ lastEvent' = Ev("start_refused", 0)
    /\ UNCHANGED <<apiKeys, sessionId, isRecording, chatHistory, button,
                   chatVisualizerHidden, scriptNode, mediaStreamSource, streamState,
                   nodeState, settleScheduled, settleFired>>
    /\ UNCHANGED playerVars
    /\ UNCHANGED socketVars
    /\ UNCHANGED call

\* mainRecordBtn click while not recording: startStreaming up to its await
ClickStart(k) ==
    /\ ~isRecording
    /\ checkRequiredKeys(apiKeys)
    \* the k-th call of getUserMedia
    /\ micState[k] = "none"
    /\ \A j \in Starts : j < k => micState[j] # "none"
    /\ micState' = [micState EXCEPT ![k] = "pending"]
    /\ lastEvent' = [Ev("start", k) EXCEPT !.discarded = Unread(handed)]
    \* audioPlayer.start()
    /\ audioContext' = playerStartContext(audioContext)
    /\ rawAudioChunks' = <<>>
    /\ handed' = <<>>
    /\ uttChunks' = <<>>
    /\ UNCHANGED <<apiKeys, sessionId, isRecording, chatHistory, status, button,
                   chatVisualizerHidden, scriptNode, mediaStreamSource, streamState,
                   nodeState, settleScheduled, settleFired, pendingDecodes,
                   uttOpen, wellFormed, websocket, readyState, sent>>
    /\ UNCHANGED call

\* mainRecordBtn click while recording: stopStreaming
ClickStop ==
    /\ isRecording
    /\ Commit(stopStreaming(Cur))
    /\ lastEvent' = [Ev("stop", 0) EXCEPT !.stopped = TRUE]
    /\ UNCHANGED <<apiKeys, sessionId, chatHistory, settleFired>>
    /\ UNCHANGED playerVars
    /\ UNCHANGED socketVars
    /\ UNCHANGED call

\* the timer stopStreaming set runs; timers of one delay run in the order they were set
SettleTimer ==
    /\ settleFired < settleScheduled
    /\ settleFired' = settleFired + 1
    /\ button' = "idle"
    /\ status' = ReadyStatus
    /\ lastEvent' = Ev("settle_timer", 0)
    /\ UNCHANGED <<apiKeys, sessionId, isRecording, chatHistory,
                   chatVisualizerHidden, scriptNode, mediaStreamSource, streamState,
                   nodeState, settleScheduled>>
    /\ UNCHANGED playerVars
    /\ UNCHANGED socketVars
    /\ UNCHANGED call

\* ------------------------------------------------------------- startStreaming, continued

\* getUserMedia resolves: new WebSocket, its four handlers are set
MicGranted(k) ==
    /\ micState[k] = "pending"
    /\ micState' = [micState EXCEPT ![k] = "granted"]
    /\ streamState' = [streamState EXCEPT ![k] = "live"]
    /\ readyState' = [readyState EXCEPT ![k] = "CONNECTING"]
    /\ websocket' = k
    /\ lastEvent' = Ev("mic_granted", k)
    /\ UNCHANGED <<apiKeys, sessionId, isRecording, chatHistory, status, button,
                   chatVisualizerHidden, scriptNode, mediaStreamSource,
                   nodeState, settleScheduled, settleFired, sent>>
    /\ UNCHANGED playerVars
    /\ UNCHANGED call

\* getUserMedia rejects: the catch block
MicDenied(k) ==
    /\ micState[k] = "pending"
    /\ micState' = [micState EXCEPT ![k] = "denied"]
    /\ status' = Status("Microphone access denied.", TRUE)
    /\ lastEvent' = Ev("mic_denied", k)
    /\ UNCHANGED <<apiKeys, sessionId, isRecording, chatHistory, button,
                   chatVisualizerHidden, scriptNode, mediaStreamSource, streamState,
                   nodeState, settleScheduled, settleFired, websocket, readyState, sent>>
    /\ UNCHANGED playerVars
    /\ UNCHANGED call

\* websocket.send(data) on a socket in state rs: throws while CONNECTING, queues while
\* OPEN, discards while CLOSING or CLOSED
SendThrows(rs) == rs = "CONNECTING"
Send(log, rs, data) == IF rs = "OPEN" THEN Append(log, data) ELSE log

\* socket k's open event: websocket.onopen.  The handler names the global websocket.
WsOpen(k) ==
    /\ readyState[k] = "CONNECTING"
    /\ readyState' = [readyState EXCEPT ![k] = "OPEN"]
    /\ IF SendThrows(readyState'[websocket])
       THEN \* websocket.send throws InvalidStateError: the rest of the handler is skipped
            /\ lastEvent' = [Ev("open", k) EXCEPT !.sentOn = websocket, !.threw = TRUE]
            /\ UNCHANGED <<sent, isRecording, status, button, chatVisualizerHidden,
                           scriptNode, mediaStreamSource, nodeState>>
       ELSE /\ sent' = [sent EXCEPT ![websocket] =
                            Send(@, readyState'[websocket], "config")]
            /\ status' = Status("Connected. Recording...", FALSE)
            /\ isRecording' = TRUE
            /\ button' = "recording"
            /\ mediaStreamSource' = k
            /\ scriptNode' = k
            /\ nodeState' = [nodeState EXCEPT ![k] = "connected"]
            \* startChatVisualizer(stream)
            /\ chatVisualizerHidden' = FALSE
            /\ lastEvent' = [Ev("open", k) EXCEPT !.sentOn = websocket]
    /\ UNCHANGED <<apiKeys, sessionId, chatHistory, streamState, settleScheduled,
                   settleFired, websocket, micState>>
    /\ UNCHANGED playerVars
    /\ UNCHANGED call

sendsFrameIfRecording(rec, rs) == rec

\* the capture callback goes past its first line
sendsFrame(rec, rs) == ~(~rec \/ rs # "OPEN")

\* the capture callback of the node made by socket k's onopen: scriptNode.onaudioprocess

Frames(log) == Len(SelectSeq(log, LAMBDA m : m = "frame"))

CaptureCallback(k) ==
    /\ nodeState[k] = "connected"
    /\ IF sendsFrame(isRecording, readyState[websocket])
       THEN \* resampleBuffer, convertTo16BitPCM, websocket.send
            /\ Frames(sent[websocket]) < MaxFrames
            /\ sent' = [sent EXCEPT ![websocket] = Send(@, readyState[websocket], "frame")]
            /\ lastEvent' = [Ev("capture", k) EXCEPT
                                !.sentOn = websocket,
                                !.threw = SendThrows(readyState[websocket])]
       ELSE /\ sent' = sent
            /\ lastEvent' = Ev("capture", k)
    /\ UNCHANGED <<apiKeys, sessionId, isRecording, chatHistory, status, button,
                   chatVisualizerHidden, scriptNode, mediaStreamSource, streamState,
                   nodeState, settleScheduled, settleFired, websocket, micState,
                   readyState>>
    /\ UNCHANGED playerVars
    /\ UNCHANGED call

\* the server starts the closing handshake: readyState becomes CLOSING, no event yet
WsClosing(k) ==
    /\ readyState[k] = "OPEN"
    /\ readyState' = [readyState EXCEPT ![k] = "CLOSING"]
    /\ lastEvent' = Ev("closing", k)
    /\ UNCHANGED <<apiKeys, sessionId, isRecording, chatHistory, status, button,
                   chatVisualizerHidden, scriptNode, mediaStreamSource, streamState,
                   nodeState, settleScheduled, settleFired, websocket, micState, sent>>
    /\ UNCHANGED playerVars
    /\ UNCHANGED call

oncloseStatusOnly(s) == [s EXCEPT !.status = Status("Recording stopped.", FALSE)]

\* websocket.onclose
onclose(s) == stopStreaming([s EXCEPT !.status = Status("Recording stopped.", FALSE)])

\* websocket.onerror
onerror(s) == stopStreaming([s EXCEPT !.status = Status("WebSocket connection error.", TRUE)])

\* socket k is closed cleanly: its close event
WsClose(k) ==
    /\ readyState[k] \in {"OPEN", "CLOSING"}
    /\ readyState' = [readyState EXCEPT ![k] = "CLOSED"]
    /\ Commit(onclose(Cur))
    /\ lastEvent' = [Ev("close", k) EXCEPT !.stopped = isRecording]
    /\ UNCHANGED <<apiKeys, sessionId, chatHistory, settleFired, websocket, micState, sent>>
    /\ UNCHANGED playerVars
    /\ UNCHANGED call

\* socket k's connection fails: its error event, then its close event, in one task
WsFail(k) ==
    /\ readyState[k] \in {"CONNECTING", "OPEN", "CLOSING"}
    /\ readyState' = [readyState EXCEPT ![k] = "CLOSED"]
    /\ Commit(onclose(onerror(Cur)))
    /\ lastEvent' = [Ev("error", k) EXCEPT !.stopped = isRecording]
    /\ UNCHANGED <<apiKeys, sessionId, chatHistory, settleFired, websocket, micState, sent>>
    /\ UNCHANGED playerVars
    /\ UNCHANGED call

\* ------------------------------------------------------------- inbound messages

\* what event.data of a message that reaches no case of the switch can be:
\*   "binary"        not a string
\*   "blank"         a string that trims to ''
\*   "unparsable"    JSON.parse throws
\*   "json_null"     JSON.parse returns null
\*   "unknown_type"  JSON.parse returns an object whose type no case names
IgnoredMessages == {"binary", "blank", "unparsable", "json_null", "unknown_type"}

onmessageBranchError(m) == "error"

\* websocket.onmessage up to its switch: where the handler goes with event.data
\*   "return"  it returns at its first line, or from the catch of JSON.parse
\*   "throw"   message.type of null throws TypeError
\*   "error"   the branch of message.type === 'error'
\*   "switch"  it reaches the switch
onmessageBranch(m) ==
    CASE m \in {"binary", "blank", "unparsable"} -> "return"
      [] m = "json_null" -> "throw"
      [] m = "error" -> "error"
      [] OTHER -> "switch"

ErrorTexts == {"quota exceeded"}

\* websocket.onmessage of socket k, for a message none of the switch's cases takes
OnMessageControl(k, m, msg) ==
    /\ readyState[k] = "OPEN"
    /\ IF onmessageBranch(m) = "error"
       THEN /\ Commit(stopStreaming([Cur EXCEPT !.status = ServerErrorStatus(msg)]))
            /\ lastEvent' = [Ev(IF m = "error" THEN "error_message" ELSE m, k)
                                EXCEPT !.stopped = isRecording]
       ELSE \* a return, an uncaught TypeError, or the switch's default
            /\ Commit(Cur)
            /\ lastEvent' = [Ev(m, k) EXCEPT !.threw = (onmessageBranch(m) = "throw")]
    /\ UNCHANGED <<apiKeys, sessionId, chatHistory, settleFired>>
    /\ UNCHANGED playerVars
    /\ UNCHANGED socketVars
    /\ UNCHANGED call

OnMessageIgnored(k, m) == \E msg \in ErrorTexts : OnMessageControl(k, m, msg)

\* {type: "error", message}
OnMessageError(k, msg) == OnMessageControl(k, "error", msg)

\* addMessageToHistory: the first initial-message is removed, the entry is appended
addMessageToHistory(history, text, role) ==
    LET first == CHOOSE i \in 1..(Len(history) + 1) :
                    /\ i <= Len(history) => history[i].class = "initial-message"
                    /\ \A j \in 1..(i - 1) : history[j].class # "initial-message"
        kept == [i \in 1..(Len(history) - (IF first <= Len(history) THEN 1 ELSE 0)) |->
                    IF i < first THEN history[i] ELSE history[i + 1]]
    IN  Append(kept, [class |-> role, text |-> text])

\* updateAssistantMessage: the last assistant bubble's text is replaced
updateAssistantMessage(history, text) ==
    LET bubbles == {i \in 1..Len(history) : history[i].class = "assistant"}
    IN  IF bubbles = {} THEN history
        ELSE LET last == CHOOSE i \in bubbles : \A j \in bubbles : j <= i
             IN  [history EXCEPT ![last].text = text]

Messages(history) == Len(SelectSeq(history, LAMBDA e : e.class # "initial-message"))

TranscriptionTexts == {"hello", " "}
Blank(text) == text \in {"", " "}

\* {type: "transcription", text}
OnTranscription(k, text) ==
    /\ readyState[k] = "OPEN"
    /\ Messages(chatHistory) < MaxHistory
    /\ chatHistory' = IF ~Blank(text) THEN addMessageToHistory(chatHistory, text, "user")
                      ELSE chatHistory
    /\ lastEvent' = [Ev("transcription", k) EXCEPT !.arg = <<text>>]
    /\ UNCHANGED <<apiKeys, sessionId, isRecording, status, button,
                   chatVisualizerHidden, scriptNode, mediaStreamSource, streamState,
                   nodeState, settleScheduled, settleFired>>
    /\ UNCHANGED playerVars
    /\ UNCHANGED socketVars
    /\ UNCHANGED call

\* {type: "audio_stream_start"}: handleAudioStreamStart
OnAudioStreamStart(k) ==
    /\ readyState[k] = "OPEN"
    /\ Messages(chatHistory) < MaxHistory
    /\ status' = Status("Receiving audio stream...", FALSE)
    /\ chatHistory' = addMessageToHistory(chatHistory, "...", "assistant")
    /\ uttOpen' = TRUE
    /\ uttChunks' = <<>>
    /\ wellFormed' = (wellFormed /\ ~uttOpen)
    /\ lastEvent' = Ev("audio_stream_start", k)
    /\ UNCHANGED <<apiKeys, sessionId, isRecording, button,
                   chatVisualizerHidden, scriptNode, mediaStreamSource, streamState,
                   nodeState, settleScheduled, settleFired, audioContext,
                   rawAudioChunks, handed, pendingDecodes>>
    /\ UNCHANGED socketVars
    /\ UNCHANGED call

\* {type: "audio_chunk", audio_data}: handleAudioChunk, AudioPlayer.queueChunk
OnAudioChunk(k, audio_data) ==
    /\ readyState[k] = "OPEN"
    /\ Len(rawAudioChunks) < MaxChunks
    /\ Len(uttChunks) < MaxChunks
    /\ IF audio_data = NoAudioData
       THEN UNCHANGED <<rawAudioChunks, handed, uttChunks>>
       ELSE /\ rawAudioChunks' = Append(rawAudioChunks, base64ToArrayBuffer(audio_data))
            /\ handed' = Append(handed, FALSE)
            /\ uttChunks' = IF uttOpen
                            THEN Append(uttChunks, base64ToArrayBuffer(audio_data))
                            ELSE uttChunks
    /\ wellFormed' = (wellFormed /\ uttOpen)
    /\ lastEvent' = [Ev("audio_chunk", k) EXCEPT !.arg = audio_data]
    /\ UNCHANGED <<apiKeys, sessionId, isRecording, chatHistory, status, button,
                   chatVisualizerHidden, scriptNode, mediaStreamSource, streamState,
                   nodeState, settleScheduled, settleFired, audioContext,
                   pendingDecodes, uttOpen>>
    /\ UNCHANGED socketVars
    /\ UNCHANGED call

PlayingStatus == Status("Audio stream complete. Playing...", FALSE)
PlaybackErrorStatus == Status("Error playing back audio", TRUE)

playReturnsNever(chunks) == FALSE

playReturnsAlways(chunks) == TRUE

\* AudioPlayer.play returns before it builds anything
playReturns(chunks) == Len(chunks) = 0

\* {type: "audio_stream_end"}: handleAudioStreamEnd, AudioPlayer.play up to its await
OnAudioStreamEnd(k) ==
    /\ readyState[k] = "OPEN"
    /\ IF playReturns(rawAudioChunks)
       THEN /\ status' = PlayingStatus
            /\ lastEvent' = [Ev("audio_stream_end", k) EXCEPT
                                !.utterance = Combined(uttChunks)]
            /\ UNCHANGED <<pendingDecodes, handed>>
       ELSE IF audioContext = "null"
       THEN \* this.audioContext.decodeAudioData throws TypeError, which play() catches
            /\ status' = PlaybackErrorStatus
            /\ lastEvent' = [Ev("audio_stream_end", k) EXCEPT
                                !.utterance = Combined(uttChunks)]
            /\ UNCHANGED <<pendingDecodes, handed>>
       ELSE /\ pendingDecodes < MaxDecodes
            /\ status' = PlayingStatus
            /\ pendingDecodes' = pendingDecodes + 1
            /\ handed' = [i \in 1..Len(handed) |-> TRUE]
            /\ lastEvent' = [Ev("audio_stream_end", k) EXCEPT
                                !.played = Combined(rawAudioChunks),
                                !.utterance = Combined(uttChunks),
                                !.replayed = Len(handed) - Unread(handed)]
    /\ uttOpen' = FALSE
    /\ uttChunks' = <<>>
    /\ wellFormed' = (wellFormed /\ uttOpen)
    /\ UNCHANGED <<apiKeys, sessionId, isRecording, chatHistory, button,
                   chatVisualizerHidden, scriptNode, mediaStreamSource, streamState,
                   nodeState, settleScheduled, settleFired, audioContext,
                   rawAudioChunks>>
    /\ UNCHANGED socketVars
    /\ UNCHANGED call

\* decodeAudioData resolves: the source is started, rawAudioChunks is emptied
DecodeResolved ==
    /\ pendingDecodes > 0
    /\ pendingDecodes' = pendingDecodes - 1
    /\ rawAudioChunks' = <<>>
    /\ handed' = <<>>
    /\ lastEvent' = [Ev("decode_resolved", 0) EXCEPT !.discarded = Unread(handed)]
    /\ UNCHANGED <<apiKeys, sessionId, isRecording, chatHistory, status, button,
                   chatVisualizerHidden, scriptNode, mediaStreamSource, streamState,
                   nodeState, settleScheduled, settleFired, audioContext,
                   uttOpen, uttChunks, wellFormed>>
    /\ UNCHANGED socketVars
    /\ UNCHANGED call

\* decodeAudioData rejects: the catch block of play()
DecodeRejected ==
    /\ pendingDecodes > 0
    /\ pendingDecodes' = pendingDecodes - 1
    /\ status' = PlaybackErrorStatus
    /\ lastEvent' = Ev("decode_rejected", 0)
    /\ UNCHANGED <<apiKeys, sessionId, isRecording, chatHistory, button,
                   chatVisualizerHidden, scriptNode, mediaStreamSource, streamState,
                   nodeState, settleScheduled, settleFired, audioContext,
                   rawAudioChunks, handed, uttOpen, uttChunks, wellFormed>>
    /\ UNCHANGED socketVars
    /\ UNCHANGED call

LlmTexts == {"Hi there"}

\* {type: "llm_response_text", text}
OnLlmResponseText(k, text) ==
    /\ readyState[k] = "OPEN"
    /\ chatHistory' = updateAssistantMessage(chatHistory, text)
    /\ lastEvent' = [Ev("llm_response_text", k) EXCEPT !.arg = <<text>>]
    /\ UNCHANGED <<apiKeys, sessionId, isRecording, status, button,
                   chatVisualizerHidden, scriptNode, mediaStreamSource, streamState,
                   nodeState, settleScheduled, settleFired>>
    /\ UNCHANGED playerVars
    /\ UNCHANGED socketVars
    /\ UNCHANGED call

\* ------------------------------------------------------------- session controls

\* newSessionBtn click: initializeSession
NewSession ==
    /\ sessionId < MaxSessions
    /\ sessionId' = sessionId + 1
    /\ chatHistory' = <<InitialMessage("Awaiting audio input...")>>
    \* audioPlayer.stop()
    /\ audioContext' = playerStopContext(audioContext)
    /\ rawAudioChunks' = <<>>
    /\ handed' = <<>>
    /\ status' = IF checkRequiredKeys(apiKeys)
                 THEN Status("Session initialized. Ready for command.", FALSE)
                 ELSE KeysRequiredStatus
    /\ uttChunks' = <<>>
    /\ lastEvent' = [Ev("new_session", 0) EXCEPT !.discarded = Unread(handed)]
    /\ UNCHANGED <<apiKeys, isRecording, button,
                   chatVisualizerHidden, scriptNode, mediaStreamSource, streamState,
                   nodeState, settleScheduled, settleFired, pendingDecodes,
                   uttOpen, wellFormed>>
    /\ UNCHANGED socketVars
    /\ UNCHANGED call

\* clearHistoryBtn click
ClearHistory ==
    /\ chatHistory' = <<InitialMessage("Log Cleared.")>>
    \* audioPlayer.stop()
    /\ audioContext' = playerStopContext(audioContext)
    /\ rawAudioChunks' = <<>>
    /\ handed' = <<>>
    /\ uttChunks' = <<>>
    /\ lastEvent' = [Ev("clear_history", 0) EXCEPT !.discarded = Unread(handed)]
    /\ UNCHANGED <<apiKeys, sessionId, isRecording, status, button,
                   chatVisualizerHidden, scriptNode, mediaStreamSource, streamState,
                   nodeState, settleScheduled, settleFired, pendingDecodes,
                   uttOpen, wellFormed>>
    /\ UNCHANGED socketVars
    /\ UNCHANGED call

\* ------------------------------------------------------------- specification

\* The recording lifecycle: every interleaving of the record button, the settings
\* form, the session controls, the microphone prompt, the sockets' events, the
\* capture callbacks, the settle timers and the server's error messages, over
\* MaxStarts starts.  The messages that carry a transcript or audio are left to
\* SpecPlayback: their handlers write the chat history, the player and the status,
\* and read nothing the lifecycle writes.
Next ==
    \/ SaveApiKeys
    \/ ClickStartRefused
    \/ \E k \in Starts : ClickStart(k)
    \/ ClickStop
    \/ SettleTimer
    \/ \E k \in Starts : MicGranted(k)
    \/ \E k \in Starts : MicDenied(k)
    \/ \E k \in Starts : WsOpen(k)
    \/ \E k \in Starts : CaptureCallback(k)
    \/ \E k \in Starts : WsClosing(k)
    \/ \E k \in Starts : WsClose(k)
    \/ \E k \in Starts : WsFail(k)
    \/ \E k \in Starts, msg \in ErrorTexts : OnMessageError(k, msg)
    \/ NewSession
    \/ ClearHistory

Spec == Init /\ [][Next]_vars

\* The inbound protocol and the player: every interleaving of the messages of one
\* socket, the decoder's completions, the session controls and the record button,
\* over the first start.
FirstStart == {1}

NextPlayback ==
    \/ \E k \in FirstStart : ClickStart(k)
    \/ ClickStop
    \/ SettleTimer
    \/ \E k \in FirstStart : MicGranted(k)
    \/ \E k \in FirstStart : WsOpen(k)
    \/ \E k \in FirstStart : WsClose(k)
    \/ \E k \in FirstStart, m \in IgnoredMessages : OnMessageIgnored(k, m)
    \/ \E k \in FirstStart, msg \in ErrorTexts : OnMessageError(k, msg)
    \/ \E k \in FirstStart, text \in TranscriptionTexts : OnTranscription(k, text)
    \/ \E k \in FirstStart : OnAudioStreamStart(k)
    \/ \E k \in FirstStart, d \in AudioData \cup {NoAudioData} : OnAudioChunk(k, d)
    \/ \E k \in FirstStart : OnAudioStreamEnd(k)
    \/ \E k \in FirstStart, text \in LlmTexts : OnLlmResponseText(k, text)
    \/ DecodeResolved
    \/ DecodeRejected
    \/ NewSession
    \/ ClearHistory

SpecPlayback == Init /\ [][NextPlayback]_vars

\* The lifecycle with the timers of setTimeout running when they are due.
FairSpec == Spec /\ WF_vars(SettleTimer)

\* ------------------------------------------------------------- createWavBuffer

\* An ArrayBuffer is the sequence of its bytes: the byte at offset o is buffer[o + 1].

\* String.charCodeAt for the characters of the four tags
charCodeAt(c) ==
    CASE c = "R" -> 82 [] c = "I" -> 73 [] c = "F" -> 70 [] c = "W" -> 87
      [] c = "A" -> 65 [] c = "V" -> 86 [] c = "E" -> 69 [] c = "f" -> 102
      [] c = "m" -> 109 [] c = "t" -> 116 [] c = " " -> 32 [] c = "d" -> 100
      [] c = "a" -> 97

\* DataView.setUint8
setUint8(view, byteOffset, value) == [view EXCEPT ![byteOffset + 1] = value % 256]

setUint32BigEndian(view, byteOffset, value) ==
    [view EXCEPT ![byteOffset + 1] = (value \div 16777216) % 256,
                 ![byteOffset + 2] = (value \div 65536) % 256,
                 ![byteOffset + 3] = (value \div 256) % 256,
                 ![byteOffset + 4] = value % 256]

\* DataView.setUint32(byteOffset, value, true): the four low bytes of value, the
\* lowest first (the value is taken modulo 2^32)
setUint32(view, byteOffset, value) ==
    [view EXCEPT ![byteOffset + 1] = value % 256,
                 ![byteOffset + 2] = (value \div 256) % 256,
                 ![byteOffset + 3] = (value \div 65536) % 256,
                 ![byteOffset + 4] = (value \div 16777216) % 256]

\* DataView.setUint16(byteOffset, value, true)
setUint16(view, byteOffset, value) ==
    LET v == value % 65536
    IN  [view EXCEPT ![byteOffset + 1] = v % 256,
                     ![byteOffset + 2] = v \div 256]

\* AudioPlayer.writeString
RECURSIVE writeString(_, _, _)
writeString(view, offset, string) ==
    IF string = <<>> THEN view
    ELSE writeString(setUint8(view, offset, charCodeAt(Head(string))),
                     offset + 1, Tail(string))

\* AudioPlayer.createWavBuffer
createWavBuffer(pcmData) ==
    LET sampleRate == 44100
        numChannels == 1
        bytesPerSample == 2
        blockAlign == numChannels * bytesPerSample
        byteRate == sampleRate * blockAlign
        dataSize == Len(pcmData)
        buffer == [i \in 1..(44 + dataSize) |-> 0]
        v1 == writeString(buffer, 0, <<"R", "I", "F", "F">>)
        v2 == setUint32(v1, 4, 36 + dataSize)
        v3 == writeString(v2, 8, <<"W", "A", "V", "E">>)
        v4 == writeString(v3, 12, <<"f", "m", "t", " ">>)
        v5 == setUint32(v4, 16, 16)
        v6 == setUint16(v5, 20, 1)
        v7 == setUint16(v6, 22, numChannels)
        v8 == setUint32(v7, 24, sampleRate)
        v9 == setUint32(v8, 28, byteRate)
        v10 == setUint16(v9, 32, blockAlign)
        v11 == setUint16(v10, 34, bytesPerSample * 8)
        v12 == writeString(v11, 36, <<"d", "a", "t", "a">>)
        v13 == setUint32(v12, 40, dataSize)
    IN  \* new Uint8Array(buffer, 44).set(pcmData)
        [i \in 1..(44 + dataSize) |-> IF i <= 44 THEN v13[i] ELSE pcmData[i - 44]]

\* ------------------------------------------------------------- resampleBuffer

\* A sample is a rational num/den, or NaN.  The code computes in doubles and stores
\* floats; the model computes exactly.
Sample(v) == [nan |-> FALSE, num |-> v, den |-> 1]
NaN == [nan |-> TRUE, num |-> 0, den |-> 1]

\* inputBuffer[j]: undefined outside the buffer, which arithmetic and the store
\* into a Float32Array turn into NaN
At(inputBuffer, j) ==
    IF j \in 0..(Len(inputBuffer) - 1) THEN inputBuffer[j + 1] ELSE NaN

MathRoundDown(num, den) == num \div den

\* Math.round(num / den) for num >= 0, den > 0: halves go up
MathRound(num, den) == (2 * num + den) \div (2 * den)

\* a * (1 - weight) + b * weight, for weight = w / den
Interpolate(a, b, w, den) ==
    IF a.nan \/ b.nan THEN NaN
    ELSE [nan |-> FALSE,
          num |-> a.num * b.den * (den - w) + b.num * a.den * w,
          den |-> a.den * b.den * den]

\* resampleBuffer; sampleRateRatio is fromSampleRate / toSampleRate, so
\* i * sampleRateRatio is (i * fromSampleRate) / toSampleRate
resampleBuffer(inputBuffer, fromSampleRate, toSampleRate) ==
    IF fromSampleRate = toSampleRate THEN inputBuffer
    ELSE LET newLength == MathRound(Len(inputBuffer) * toSampleRate, fromSampleRate)
             result(i) ==
                LET n == i * fromSampleRate
                    indexFloor == n \div toSampleRate
                    indexCeil == IF n % toSampleRate = 0 THEN indexFloor ELSE indexFloor + 1
                IN  IF indexCeil >= Len(inputBuffer)
                    THEN At(inputBuffer, Len(inputBuffer) - 1)
                    ELSE Interpolate(At(inputBuffer, indexFloor), At(inputBuffer, indexCeil),
                                     n % toSampleRate, toSampleRate)
         IN  [i \in 1..newLength |-> result(i - 1)]

\* ------------------------------------------------------------- the utilities by themselves

RECURSIVE SeqsUpTo(_, _)
\* the sequences over S of length at most n
SeqsUpTo(S, n) ==
    IF n = 0 THEN {<<>>}
    ELSE LET shorter == SeqsUpTo(S, n - 1)
         IN  shorter \cup {Append(q, x) : q \in shorter, x \in S}

\* bytes of a Uint8Array
PcmBytes == {0, 127, 255}
\* samples of the microphone's Float32Array
InputSamples == {Sample(-1), Sample(0), Sample(1)}
\* sample rates, in units of one common rate
SampleRates == {1, 2, 3}

Calls ==
    {[fn |-> "createWavBuffer", args |-> <<pcmData>>, returned |-> FALSE, result |-> <<>>] :
        pcmData \in SeqsUpTo(PcmBytes, MaxPcmBytes)}
    \cup
    {[fn |-> "resampleBuffer", args |-> <<inputBuffer, from, to>>, returned |-> FALSE,
      result |-> <<>>] :
        inputBuffer \in SeqsUpTo(InputSamples, MaxSamples),
        from \in SampleRates, to \in SampleRates}

InitUtilities == Loaded /\ call \in Calls

CallCreateWavBuffer ==
    /\ call.fn = "createWavBuffer"
    /\ ~call.returned
    /\ call' = [call EXCEPT !.returned = TRUE, !.result = createWavBuffer(call.args[1])]
    /\ UNCHANGED pageVars

CallResampleBuffer ==
    /\ call.fn = "resampleBuffer"
    /\ ~call.returned
    /\ call' = [call EXCEPT !.returned = TRUE,
                            !.result = resampleBuffer(call.args[1], call.args[2],
                                                      call.args[3])]
    /\ UNCHANGED pageVars

NextUtilities == CallCreateWavBuffer \/ CallResampleBuffer

\* createWavBuffer and resampleBuffer, each applied once to every argument of Calls
SpecUtilities == InitUtilities /\ [][NextUtilities]_vars

\* ------------------------------------------------------------- claims

Configs(log) == Len(SelectSeq(log, LAMBDA m : m = "config"))

\* C1: every socket that has opened was given the config message exactly once, and
\* the config message is the first message given to any socket.
C1_ConfigOnceAndFirst ==
    \A k \in Starts :
        /\ readyState[k] = "OPEN" => Configs(sent[k]) = 1
        /\ sent[k] # <<>> => sent[k][1] = "config"
        /\ Configs(sent[k]) <= 1

\* C2: an audio_stream_end that closes an utterance with at least one chunk, on a
\* stream the server sent in protocol order, hands createWavBuffer exactly the
\* utterance's payloads, concatenated in arrival order.
C2_PayloadIsUtterance ==
    (lastEvent.type = "audio_stream_end" /\ wellFormed /\ lastEvent.utterance # <<>>)
        => lastEvent.played = lastEvent.utterance

\* C3: rawAudioChunks is empty right after play() has handed the container to the
\* decoder, and after the decode has settled either way.
C3_BufferClearedAtHandOff ==
    /\ (lastEvent.type = "audio_stream_end" /\ lastEvent.played # <<>>)
            => rawAudioChunks = <<>>
    /\ lastEvent.type \in {"decode_resolved", "decode_rejected"} => rawAudioChunks = <<>>

\* C4: on a stream sent in protocol order, no playback request reads a chunk an
\* earlier request has read, and the end of a decode discards no chunk that no
\* request has read.
C4_EachChunkPlayedOnce ==
    wellFormed =>
        /\ lastEvent.replayed = 0
        /\ lastEvent.type = "decode_resolved" => lastEvent.discarded = 0

\* C5: right after audio_stream_start is handled, rawAudioChunks is empty and the
\* chat history ends with the assistant placeholder.
C5_StartLeavesFreshBuffer ==
    lastEvent.type = "audio_stream_start" =>
        /\ rawAudioChunks = <<>>
        /\ chatHistory # <<>>
        /\ chatHistory[Len(chatHistory)] = [class |-> "assistant", text |-> "..."]

\* C6: a decode is requested only by the handler of an audio_stream_end that finds
\* rawAudioChunks non-empty; the handler of an audio_chunk requests none and does
\* not throw, whether or not an audio_stream_start came before.
C6_PlaybackOnlyAtEndWithChunks ==
    [][/\ pendingDecodes' > pendingDecodes
            => (lastEvent'.type = "audio_stream_end" /\ rawAudioChunks # <<>>)
       /\ lastEvent'.played # <<>>
            => (lastEvent'.type = "audio_stream_end" /\ rawAudioChunks # <<>>)
       /\ lastEvent'.type = "audio_chunk"
            => (~lastEvent'.threw /\ pendingDecodes' = pendingDecodes)
       /\ (lastEvent'.type = "audio_stream_end" /\ rawAudioChunks = <<>>)
            => pendingDecodes' = pendingDecodes]_vars

\* an audio_chunk with a payload, with no audio_stream_start before it, was queued
\* and nothing is being decoded
C6_Witness ==
    /\ lastEvent.type = "audio_chunk"
    /\ ~wellFormed
    /\ ~uttOpen
    /\ rawAudioChunks # <<>>
    /\ pendingDecodes = 0

\* C7: a click on the record button while not recording and with a required key
\* null or empty asks for no microphone, opens no socket, leaves isRecording false
\* and sets the status to the API-keys prompt.
C7_StartRefusedWithoutKeys ==
    [][(/\ lastEvent'.type \in {"start", "start_refused"}
        /\ \E key \in RequiredKeys : Falsy(apiKeys[key]))
       => /\ micState' = micState
          /\ streamState' = streamState
          /\ readyState' = readyState
          /\ websocket' = websocket
          /\ isRecording' = FALSE
          /\ status' = KeysRequiredStatus]_vars

\* the start was refused with only the murf key empty
C7_Witness ==
    /\ lastEvent.type = "start_refused"
    /\ apiKeys = [AllKeys EXCEPT !["murf"] = ""]
    /\ ~isRecording
    /\ status = KeysRequiredStatus
    /\ \A k \in Starts : micState[k] = "none"

\* C8: every run of the stop sequence sets a settle timer; the n-th timer set runs
\* in the end, whatever else happens or does not; and when a timer has run the
\* button state is idle and the status is 'Ready for command.'.
C8_StopReachesIdleReport ==
    /\ [](lastEvent.stopped => settleFired < settleScheduled)
    /\ \A n \in Starts : (settleScheduled >= n) ~> (settleFired >= n)
    /\ [](lastEvent.type = "settle_timer" => (button = "idle" /\ status = ReadyStatus))

\* the timer of a stop has run and made the idle report, the socket still open
C8_Witness ==
    /\ lastEvent.type = "settle_timer"
    /\ settleFired = 1
    /\ settleScheduled = 1
    /\ button = "idle"
    /\ status = ReadyStatus
    /\ readyState[1] = "OPEN"

\* C9: while isRecording is false stopStreaming changes nothing it could write, and
\* the one handler that calls it then, that of an error message, schedules no timer,
\* releases no device and leaves the button state as it was.
C9_StopWhileNotRecordingIsNoOp ==
    /\ [](~isRecording => stopStreaming(Cur) = Cur)
    /\ [][(lastEvent'.type = "error_message" /\ ~isRecording)
            => UNCHANGED <<isRecording, button, settleScheduled, scriptNode, nodeState,
                           mediaStreamSource, streamState, chatVisualizerHidden>>]_vars

\* an error message was handled after the recording had already been stopped
C9_Witness ==
    /\ lastEvent.type = "error_message"
    /\ ~lastEvent.stopped
    /\ ~isRecording
    /\ settleScheduled = 1
    /\ streamState[1] = "stopped"

\* C10: a capture callback calls websocket.send only while isRecording is true and
\* the socket it sends on is OPEN, so the call never throws; with isRecording false
\* it sends nothing.
C10_FramesOnlyWhileRecordingOnOpenSocket ==
    lastEvent.type = "capture" =>
        /\ lastEvent.sentOn # 0 =>
                /\ isRecording
                /\ readyState[lastEvent.sentOn] = "OPEN"
                /\ ~lastEvent.threw
        /\ ~isRecording => lastEvent.sentOn = 0

\* a capture callback ran after the stop sequence and sent nothing
C10_Witness ==
    /\ lastEvent.type = "capture"
    /\ lastEvent.sentOn = 0
    /\ ~isRecording
    /\ settleScheduled >= 1

\* C11: an error message handled while recording clears isRecording, leaves no
\* capture node connected and no microphone stream live, hides the visualizer, sets
\* the status to the server's text, and does nothing else: the chat history, the
\* player and the sockets are as they were.
C11_ErrorMessageStopsRecording ==
    [][(lastEvent'.type = "error_message" /\ isRecording)
       => /\ ~isRecording'
          /\ scriptNode' = 0
          /\ mediaStreamSource' = 0
          /\ \A k \in Starts : nodeState'[k] # "connected" /\ streamState'[k] # "live"
          /\ chatVisualizerHidden'
          /\ \E msg \in ErrorTexts : status' = ServerErrorStatus(msg)
          /\ UNCHANGED <<chatHistory, sessionId, apiKeys>>
          /\ UNCHANGED playerVars
          /\ UNCHANGED socketVars]_vars

\* C12: a close or error event of a socket leaves isRecording false and does not
\* throw; while recording it does what stopStreaming does after setting its status,
\* and while not recording it changes the status only.
C12_CloseOrErrorStopsIfRecording ==
    [][lastEvent'.type \in {"close", "error"}
       => /\ ~isRecording'
          /\ ~lastEvent'.threw
          /\ lastEvent'.stopped = isRecording
          \* the close event comes after the error event and sets its status last
          /\ status' = Status("Recording stopped.", FALSE)
          /\ isRecording
                => /\ button' = "processing"
                   /\ settleScheduled' = settleScheduled + 1
                   /\ scriptNode' = 0
                   /\ mediaStreamSource' = 0
                   /\ scriptNode # 0 => nodeState'[scriptNode] = "disconnected"
                   /\ mediaStreamSource # 0 => streamState'[mediaStreamSource] = "stopped"
                   /\ chatVisualizerHidden'
          /\ ~isRecording
                => UNCHANGED <<button, settleScheduled, scriptNode, mediaStreamSource,
                               nodeState, streamState, chatVisualizerHidden>>
          /\ UNCHANGED <<chatHistory, sessionId, apiKeys, websocket, sent>>
          /\ UNCHANGED playerVars]_vars

\* the connection of a recording socket failed: the recording was stopped
C12_Witness ==
    /\ lastEvent.type = "error"
    /\ lastEvent.stopped
    /\ ~isRecording
    /\ button = "processing"
    /\ streamState[lastEvent.sock] = "stopped"
    /\ readyState[lastEvent.sock] = "CLOSED"

\* C13: when the page is not recording and no start is on its way (no getUserMedia
\* promise pending, no socket connecting), no microphone stream is live.
C13_NoLiveStreamWhenIdle ==
    (/\ ~isRecording
     /\ \A k \in Starts : micState[k] # "pending" /\ readyState[k] # "CONNECTING")
        => \A k \in Starts : streamState[k] # "live"

\* C14: a step that runs the stop sequence changes no socket (but the one whose
\* close or error event the step is), nothing that was sent and nothing of the
\* player; and an utterance whose audio_stream_end is handled after the recording
\* was stopped, its chunks being what the buffer holds, is handed to the decoder
\* whole.
C14_StopLeavesSocketAndBuffer ==
    /\ [][lastEvent'.stopped
          => /\ UNCHANGED <<websocket, sent, micState>>
             /\ UNCHANGED playerVars
             /\ \A k \in Starts :
                    readyState'[k] # readyState[k]
                        => (lastEvent'.type \in {"close", "error"} /\ lastEvent'.sock = k)]_vars
    /\ []((/\ lastEvent.type = "audio_stream_end"
           /\ ~isRecording
           /\ settleScheduled >= 1
           /\ audioContext = "running"
           /\ lastEvent.utterance # <<>>
           /\ Combined(rawAudioChunks) = lastEvent.utterance)
          => (lastEvent.played = lastEvent.utterance /\ pendingDecodes >= 1))

\* after the stop and its settle timer, on the socket still open, an utterance of
\* two chunks was handed to the decoder
C14_Witness ==
    /\ lastEvent.type = "audio_stream_end"
    /\ ~isRecording
    /\ settleFired = 1
    /\ button = "idle"
    /\ readyState[1] = "OPEN"
    /\ wellFormed
    /\ lastEvent.played = <<1, 2, 3>>
    /\ lastEvent.utterance = <<1, 2, 3>>
    /\ pendingDecodes = 1

\* C15: at most one socket is connecting or open.
C15_AtMostOneActiveSocket ==
    Cardinality({k \in Starts : readyState[k] \in {"CONNECTING", "OPEN"}}) <= 1

\* C16: whatever the state, a click on the new-session button leaves the chat
\* history as the one placeholder, a session id no earlier session had, an empty
\* rawAudioChunks, no running playback context, and the status checkRequiredKeys
\* gives for the stored keys.
C16_NewSessionResets ==
    [][lastEvent'.type = "new_session"
       => /\ chatHistory' = <<InitialMessage("Awaiting audio input...")>>
          /\ sessionId' > sessionId
          /\ rawAudioChunks' = <<>>
          /\ audioContext' # "running"
          /\ (\E key \in RequiredKeys : Falsy(apiKeys[key]))
                => status' = KeysRequiredStatus
          /\ (\A key \in RequiredKeys : ~Falsy(apiKeys[key]))
                => status' = Status("Session initialized. Ready for command.", FALSE)]_vars

\* a new session was started while recording, in the middle of an utterance, with
\* a chunk in the buffer that no playback request had read
C16_Witness ==
    /\ lastEvent.type = "new_session"
    /\ lastEvent.discarded >= 1
    /\ isRecording
    /\ uttOpen
    /\ sessionId = 2
    /\ audioContext = "closed"
    /\ rawAudioChunks = <<>>
    /\ chatHistory = <<InitialMessage("Awaiting audio input...")>>

\* C17: right after a click on the new-session button no socket is connecting or
\* open and no microphone stream is live; and a message a socket delivers next
\* (the socket was made before the click) changes neither the chat history nor
\* rawAudioChunks.
C17_NewSessionClosesSocket ==
    /\ [](lastEvent.type = "new_session"
            => \A k \in Starts : /\ readyState[k] \notin {"CONNECTING", "OPEN"}
                                 /\ streamState[k] # "live")
    /\ [][(/\ lastEvent.type = "new_session"
           /\ lastEvent'.sock # 0
           /\ lastEvent'.type \in {"transcription", "audio_stream_start", "audio_chunk",
                                   "audio_stream_end", "llm_response_text"})
          => UNCHANGED <<chatHistory, rawAudioChunks>>]_vars

\* C18: a message that is not a string, is blank, is not JSON, is the JSON null or
\* has an unknown type changes nothing: isRecording, the sockets, rawAudioChunks,
\* the chat history and all the rest are as they were; and an audio_stream_start
\* or a transcription delivered right after it is handled as ever.
C18_IgnoredMessagesChangeNothing ==
    /\ [][lastEvent'.type \in IgnoredMessages
          => /\ UNCHANGED <<apiKeys, sessionId, isRecording, chatHistory, status, button,
                            chatVisualizerHidden, scriptNode, mediaStreamSource,
                            streamState, nodeState, settleScheduled, settleFired>>
             /\ UNCHANGED playerVars
             /\ UNCHANGED socketVars]_vars
    /\ [][lastEvent.type \in IgnoredMessages
          => /\ lastEvent'.type = "audio_stream_start"
                => /\ status' = Status("Receiving audio stream...", FALSE)
                   /\ chatHistory'[Len(chatHistory')] = [class |-> "assistant", text |-> "..."]
             /\ (lastEvent'.type = "transcription" /\ chatHistory' # chatHistory)
                => chatHistory'[Len(chatHistory')] = [class |-> "user", text |-> "hello"]]_vars

\* a message that is not JSON was dropped while recording, in the middle of an
\* utterance with a chunk queued
C18_Witness ==
    /\ lastEvent.type = "unparsable"
    /\ isRecording
    /\ uttOpen
    /\ rawAudioChunks # <<>>
    /\ readyState[1] = "OPEN"

\* C19: a rejected decode sets the playback-error status and changes neither
\* isRecording nor the button nor any socket; and it leaves in rawAudioChunks no
\* chunk of the utterance it was the decode of, so that the next playback request
\* reads the next utterance's chunks only.
C19_DecodeFailureSkipsUtterance ==
    /\ [][lastEvent'.type = "decode_rejected"
          => /\ status' = PlaybackErrorStatus
             /\ UNCHANGED <<isRecording, button, chatHistory, sessionId>>
             /\ UNCHANGED socketVars]_vars
    /\ [](lastEvent.type = "decode_rejected" => \A i \in 1..Len(handed) : ~handed[i])

\* The states of the scenario of C20, on socket 1: the session records and nothing
\* was received yet (Heard(0)), then one state per message handled.  Other handlers
\* may run in between as long as they leave these facts alone.
UserHello == [class |-> "user", text |-> "hello"]
Assistant(text) == [class |-> "assistant", text |-> text]

\* the bytes of an audio_data of AudioData
Bytes(audio_data) == IF audio_data = <<"A", "Q", "=", "=">> THEN <<1>> ELSE <<2, 3>>

Heard(n) ==
    /\ readyState[1] = "OPEN"
    /\ n <= 4 => (audioContext = "running" /\ pendingDecodes = 0)
    /\ n = 0 => isRecording
    /\ uttOpen = (n \in {2, 3, 4})
    /\ n <= 4 => Len(rawAudioChunks) = (IF n <= 2 THEN 0 ELSE n - 2)
    \* the chunks in the buffer are the ones received since audio_stream_start
    /\ n \in 2..4 => uttChunks = rawAudioChunks
    /\ chatHistory = CASE n = 0 -> <<InitialMessage("Awaiting audio input...")>>
                       [] n = 1 -> <<UserHello>>
                       [] n \in 2..5 -> <<UserHello, Assistant("...")>>
                       [] OTHER -> <<UserHello, Assistant("Hi there")>>

NoPlayback == pendingDecodes' = pendingDecodes /\ lastEvent'.played = <<>>

\* C20: from a recording session that has received nothing, the messages
\* transcription "hello", audio_stream_start, two audio_chunk with audio_data,
\* audio_stream_end, llm_response_text "Hi there" lead through Heard(1) .. Heard(6):
\* the chat history ends as the user entry "hello" and the assistant entry
\* "Hi there"; the two payloads are queued decoded and in order; the handler of
\* audio_stream_end requests the one decode, of their concatenation; no other
\* handler of the sequence requests a decode.
C20_EndToEndScenario ==
    [][/\ (Heard(0) /\ lastEvent'.type = "transcription" /\ lastEvent'.arg = <<"hello">>)
            => (Heard(1)' /\ NoPlayback)
       /\ (Heard(1) /\ lastEvent'.type = "audio_stream_start")
            => (Heard(2)' /\ NoPlayback)
       /\ \A n \in {2, 3} :
            (Heard(n) /\ lastEvent'.type = "audio_chunk" /\ lastEvent'.arg \in AudioData)
                => /\ Heard(n + 1)'
                   /\ rawAudioChunks' = Append(rawAudioChunks, Bytes(lastEvent'.arg))
                   /\ NoPlayback
       /\ (Heard(4) /\ lastEvent'.type = "audio_stream_end")
            => /\ Heard(5)'
               /\ lastEvent'.played = rawAudioChunks[1] \o rawAudioChunks[2]
               /\ lastEvent'.played = lastEvent'.utterance
               /\ pendingDecodes' = 1
       /\ (Heard(5) /\ lastEvent'.type = "llm_response_text"
                    /\ lastEvent'.arg = <<"Hi there">>)
            => (Heard(6)' /\ NoPlayback)
       /\ \A n \in 0..5 :
            (Heard(n) /\ lastEvent'.type \in {"capture", "settle_timer", "stop"}
                      /\ (n = 0 => isRecording'))
                => Heard(n)']_vars

\* the whole sequence was handled while recording: the history has the two entries,
\* the decode of the two payloads is pending
C20_Witness ==
    /\ lastEvent.type = "llm_response_text"
    /\ isRecording
    /\ Heard(6)
    /\ pendingDecodes = 1
    /\ rawAudioChunks = <<(<<2, 3>>), (<<1>>)>>
    /\ handed = <<TRUE, TRUE>>
    /\ wellFormed

\* the unsigned number whose bytes, lowest first, are the n bytes of buffer at offset
RECURSIVE LittleEndian(_, _, _)
LittleEndian(buffer, offset, n) ==
    IF n = 0 THEN 0 ELSE buffer[offset + 1] + 256 * LittleEndian(buffer, offset + 1, n - 1)

\* C21: for a payload of N bytes, N >= 0, createWavBuffer returns 44 + N bytes:
\* "RIFF", 36 + N at bytes 4-7, "WAVE", "fmt ", 16, format 1, 1 channel, sample rate
\* 44100, byte rate 88200, block align 2, 16 bits per sample, "data", N at bytes
\* 40-43, every number lowest byte first, and then the payload.
C21_WavContainer ==
    (call.fn = "createWavBuffer" /\ call.returned) =>
        LET pcmData == call.args[1]
            N == Len(pcmData)
            buffer == call.result
        IN  /\ Len(buffer) = 44 + N
            /\ SubSeq(buffer, 1, 4) = <<82, 73, 70, 70>>
            /\ LittleEndian(buffer, 4, 4) = 36 + N
            /\ SubSeq(buffer, 9, 16) = <<87, 65, 86, 69, 102, 109, 116, 32>>
            /\ LittleEndian(buffer, 16, 4) = 16
            /\ LittleEndian(buffer, 20, 2) = 1
            /\ LittleEndian(buffer, 22, 2) = 1
            /\ LittleEndian(buffer, 24, 4) = 44100
            /\ LittleEndian(buffer, 28, 4) = 88200
            /\ LittleEndian(buffer, 32, 2) = 2
            /\ LittleEndian(buffer, 34, 2) = 16
            /\ SubSeq(buffer, 37, 40) = <<100, 97, 116, 97>>
            /\ LittleEndian(buffer, 40, 4) = N
            /\ SubSeq(buffer, 45, 44 + N) = pcmData

\* createWavBuffer has returned the container of a payload of three bytes
C21_Witness ==
    /\ call.fn = "createWavBuffer"
    /\ call.returned
    /\ call.args[1] = <<255, 0, 127>>
    /\ Len(call.result) = 47
    /\ call.result[5] = 39
    /\ call.result[45] = 255

\* C22: with equal rates resampleBuffer returns its input; otherwise it returns L
\* samples, L the integer with L <= inputLength * to / from + 1/2 < L + 1; no
\* sample is NaN, that is, none was read outside the input; the sample at a
\* position i whose upper neighbour ceil(i * from / to) is outside the input is the
\* last input sample; and an empty input gives an empty output.
C22_ResampleLengthAndBounds ==
    (call.fn = "resampleBuffer" /\ call.returned) =>
        LET inputBuffer == call.args[1]
            from == call.args[2]
            to == call.args[3]
            len == Len(inputBuffer)
            result == call.result
            L == Len(result)
        IN  /\ from = to => result = inputBuffer
            /\ from # to =>
                /\ 2 * L * from <= 2 * len * to + from
                /\ 2 * len * to + from < 2 * (L + 1) * from
                /\ \A i \in 0..(L - 1) :
                    /\ ~result[i + 1].nan
                    /\ i * from > (len - 1) * to => result[i + 1] = inputBuffer[len]
            /\ len = 0 => L = 0

\* resampleBuffer has doubled the rate of two samples: four samples, the last of
\* them, past the input's end, the last input sample
C22_Witness ==
    /\ call.fn = "resampleBuffer"
    /\ call.returned
    /\ call.args = <<(<<Sample(-1), Sample(1)>>), 1, 2>>
    /\ Len(call.result) = 4
    /\ call.result[4] = Sample(1)
    /\ call.result[2] = [nan |-> FALSE, num |-> 0, den |-> 2]

\* C23: while isRecording is true the button state is 'recording', and no settle
\* timer runs its callback (button idle, status 'Ready for command.') while
\* isRecording is true.
C23_ButtonAgreesWithRecording ==
    /\ isRecording => button = "recording"
    /\ lastEvent.type = "settle_timer" => ~isRecording

\* C24: when the handler of a socket's close event, error event or error message
\* runs the stop sequence, that socket is the one of the recording it stops: the
\* socket the global websocket names, or the one whose onopen made the capture node.
C24_OnlyOwnSocketStops ==
    [][(lastEvent'.stopped /\ lastEvent'.type \in {"close", "error", "error_message"})
       => lastEvent'.sock \in {websocket, scriptNode}]_vars

\* C25: when the handler of audio_stream_end gives a container to decodeAudioData,
\* the player's audioContext exists and is not closed.
C25_DecodeOnRunningContext ==
    (lastEvent.type = "audio_stream_end" /\ lastEvent.played # <<>>)
        => audioContext = "running"

====
